---- MODULE Spec2Model ----
(* Model of nmap_auto_banner.py (src/code.py): a sequential wrapper that    *)
(* resolves a target, checks that nmap is present, creates results/<target>,*)
(* selects scan profiles and runs nmap once for each selected profile.      *)
(* Strings typed by the user are sequences of one-character strings, so     *)
(* that strip(), lower(), split(",") and int() are computed, not assumed.   *)
EXTENDS Integers, Sequences, FiniteSets, TLC

\* ---------------------------------------------------------------- bounds
MaxTokens == 2      \* most comma-separated pieces typed at the selection prompt
MaxClock == 1       \* last value of the wall clock (seconds since start)

\* ---------------------------------------------------------------- inputs
Digits == {"0", "1", "3", "7", "8", "9"}

DigitVal(c) ==
    CASE c = "0" -> 0 [] c = "1" -> 1 [] c = "3" -> 3
      [] c = "7" -> 7 [] c = "8" -> 8 [] c = "9" -> 9

StringsOver(chars, n) == UNION {[1..k -> chars] : k \in 0..n}

\* raw strings given as argv[1] or typed at the target prompt
TargetInputs == {<<>>, <<" ">>, <<"h">>, <<" ", "h", " ">>}

\* command lines: the arguments after the program name
ArgvInputs == StringsOver(TargetInputs, 2)

\* raw lines typed at the mode prompt
ModeInputs == {<<>>, <<" ">>, <<"1">>, <<"2">>, <<" ", "2">>, <<"3">>}

\* pieces a selection line is made of; a line is pieces joined by commas
PieceInputs ==
    { <<>>, <<" ">>, <<"1">>, <<"3">>, <<" ", "3">>, <<"7">>, <<"0">>, <<"8">>,
      <<"9", "9">>, <<"a">>, <<"a", "l", "l">>, <<"A", "l", "L">> }

RECURSIVE Join(_)
Join(pieces) ==
    IF pieces = <<>> THEN <<>>
    ELSE IF Len(pieces) = 1 THEN pieces[1]
    ELSE pieces[1] \o <<",">> \o Join(Tail(pieces))

PicksInputs == {Join(ps) : ps \in StringsOver(PieceInputs, MaxTokens)}

\* ------------------------------------------------------ string functions
\* str.strip(): drop leading and trailing blanks
RECURSIVE LStrip(_)
LStrip(s) == IF s # <<>> /\ Head(s) = " " THEN LStrip(Tail(s)) ELSE s

RECURSIVE RStrip(_)
RStrip(s) ==
    IF s # <<>> /\ s[Len(s)] = " " THEN RStrip(SubSeq(s, 1, Len(s) - 1)) ELSE s

Strip(s) == RStrip(LStrip(s))

\* str.lower()
LowerChar(c) == CASE c = "A" -> "a" [] c = "L" -> "l" [] OTHER -> c

Lower(s) == [i \in 1..Len(s) |-> LowerChar(s[i])]

\* str.split(","): always at least one piece
RECURSIVE SplitFrom(_, _, _)
SplitFrom(s, i, cur) ==
    IF i > Len(s) THEN <<cur>>
    ELSE IF s[i] = "," THEN <<cur>> \o SplitFrom(s, i + 1, <<>>)
    ELSE SplitFrom(s, i + 1, Append(cur, s[i]))

Split(s) == SplitFrom(s, 1, <<>>)

\* int(x): accepts blanks around a run of decimal digits, else ValueError
IsInt(tok) ==
    LET t == Strip(tok) IN t # <<>> /\ \A i \in 1..Len(t) : t[i] \in Digits

RECURSIVE DecValue(_)
DecValue(t) ==
    IF t = <<>> THEN 0
    ELSE 10 * DecValue(SubSeq(t, 1, Len(t) - 1)) + DigitVal(t[Len(t)])

IntOf(tok) == DecValue(Strip(tok))

\* -------------------------------------------------------------- registry
SCANS ==
    << [label |-> "tcp_quick_top1000", args |-> "-sS -T4 --top-ports 1000 -Pn"],
       [label |-> "tcp_full_all_ports", args |-> "-sS -p- -T3 -Pn"],
       [label |-> "service_version", args |-> "-sV -sC -T4 -Pn"],
       [label |-> "udp_top100", args |-> "-sU --top-ports 100 -T3 -Pn"],
       [label |-> "os_detection", args |-> "-O -sV -T4 -Pn"],
       [label |-> "nse_vuln", args |-> "-sV --script vuln -T4 -Pn"],
       [label |-> "default_scripts", args |-> "-sC -T4 -Pn"] >>

\* ------------------------------------------------ interactive selection
\* [x for x in picks.split(",") if x.strip()]
RECURSIVE NonBlank(_)
NonBlank(toks) ==
    IF toks = <<>> THEN <<>>
    ELSE IF Strip(Head(toks)) # <<>> THEN <<Head(toks)>> \o NonBlank(Tail(toks))
    ELSE NonBlank(Tail(toks))

Tokens(picks) == NonBlank(Split(picks))

\* variant: the typed numbers taken as 0-based positions
RECURSIVE SelectIdxsZeroBased(_)
SelectIdxsZeroBased(idxs) ==
    IF idxs = <<>> THEN <<>>
    ELSE IF 0 <= Head(idxs) /\ Head(idxs) < Len(SCANS)
         THEN <<SCANS[Head(idxs) + 1]>> \o SelectIdxsZeroBased(Tail(idxs))
         ELSE SelectIdxsZeroBased(Tail(idxs))

\* for i in idxs: if 1 <= i <= len(SCANS): selected.append(SCANS[i-1])
RECURSIVE SelectIdxs(_)
SelectIdxs(idxs) ==
    IF idxs = <<>> THEN <<>>
    ELSE IF 1 <= Head(idxs) /\ Head(idxs) <= Len(SCANS)
         THEN <<SCANS[Head(idxs)]>> \o SelectIdxs(Tail(idxs))
         ELSE SelectIdxs(Tail(idxs))

\* variant: the warning is printed on every fallback to the full registry
interactive_choose_scans_WarnOnFallback(raw) ==
    LET picks == Lower(Strip(raw))
        toks == Tokens(picks)
    IN IF picks = <<"a", "l", "l">> \/ picks = <<>>
       THEN [scans |-> SCANS, warned |-> FALSE]
       ELSE IF \E k \in 1..Len(toks) : ~IsInt(toks[k])
       THEN [scans |-> SCANS, warned |-> TRUE]
       ELSE LET selected == SelectIdxs([k \in 1..Len(toks) |-> IntOf(toks[k])])
            IN [scans |-> IF selected # <<>> THEN selected ELSE SCANS,
                warned |-> selected = <<>>]

\* variant: a token int() rejects is skipped like an out-of-range number
interactive_choose_scans_SkipBad(raw) ==
    LET picks == Lower(Strip(raw))
        toks == SelectSeq(Tokens(picks), IsInt)
    IN IF picks = <<"a", "l", "l">> \/ picks = <<>>
       THEN [scans |-> SCANS, warned |-> FALSE]
       ELSE LET selected == SelectIdxs([k \in 1..Len(toks) |-> IntOf(toks[k])])
            IN [scans |-> IF selected # <<>> THEN selected ELSE SCANS,
                warned |-> selected = <<>>]

\* the whole function: result list and whether the warning was printed
interactive_choose_scans(raw) ==
    LET picks == Lower(Strip(raw))
        toks == Tokens(picks)
    IN IF picks = <<"a", "l", "l">> \/ picks = <<>>
       THEN [scans |-> SCANS, warned |-> FALSE]
       ELSE IF \E k \in 1..Len(toks) : ~IsInt(toks[k])
       THEN [scans |-> SCANS, warned |-> TRUE]
       ELSE LET selected == SelectIdxs([k \in 1..Len(toks) |-> IntOf(toks[k])])
            IN [scans |-> IF selected # <<>> THEN selected ELSE SCANS,
                warned |-> FALSE]

\* ----------------------------------------------------------------- state
VARIABLES
    pc,            \* position in main()
    target,        \* main's target (stripped)
    nmap,          \* outcome of the preflight version query
    dirCreated,    \* results/<target> exists because of this run
    modePrompted,  \* the mode prompt was issued
    picksPrompted, \* the selection prompt was issued
    mode,          \* value returned by choose_mode
    picks,         \* raw line typed at the selection prompt
    scans_to_run,  \* main's scans_to_run
    warned,        \* "[!] Invalid selection" was printed
    i,             \* number of loop iterations completed
    invocations,   \* external scan invocations, in order
    clock,         \* wall clock in seconds
    exitCode       \* process exit status, -1 while running

vars == <<pc, target, nmap, dirCreated, modePrompted, picksPrompted, mode,
          picks, scans_to_run, warned, i, invocations, clock, exitCode>>

NoLine == <<"-">>  \* nothing typed (yet)

Init ==
    /\ pc = "get_target"
    /\ target = NoLine
    /\ nmap = "unknown"
    /\ dirCreated = FALSE
    /\ modePrompted = FALSE
    /\ picksPrompted = FALSE
    /\ mode = NoLine
    /\ picks = NoLine
    /\ scans_to_run = <<>>
    /\ warned = FALSE
    /\ i = 0
    /\ invocations = <<>>
    /\ clock = 0
    /\ exitCode = -1

\* main(), lines 92-99: target from argv or from the prompt
GetTarget ==
    /\ pc = "get_target"
    /\ \E argv \in ArgvInputs :
         IF Len(argv) = 1
         THEN /\ target' = Strip(argv[1])
              /\ pc' = "check_nmap"
              /\ exitCode' = exitCode
         ELSE \E line \in TargetInputs :
              /\ target' = Strip(line)
              /\ IF Strip(line) = <<>>
                 THEN pc' = "exit" /\ exitCode' = 1
                 ELSE pc' = "check_nmap" /\ exitCode' = exitCode
    /\ UNCHANGED <<nmap, dirCreated, modePrompted, picksPrompted, mode, picks,
                   scans_to_run, warned, i, invocations, clock>>

\* variant: the failure is reported but sys.exit(1) is missing
CheckNmapNoExit ==
    /\ pc = "check_nmap"
    /\ \E outcome \in {"ok", "missing", "nonzero"} : nmap' = outcome
    /\ pc' = "mkdir"
    /\ UNCHANGED <<target, dirCreated, modePrompted, picksPrompted, mode, picks,
                   scans_to_run, warned, i, invocations, clock, exitCode>>

\* check_nmap(), lines 45-50
CheckNmap ==
    /\ pc = "check_nmap"
    /\ \E outcome \in {"ok", "missing", "nonzero"} :
         /\ nmap' = outcome
         /\ IF outcome = "ok"
            THEN pc' = "mkdir" /\ exitCode' = exitCode
            ELSE pc' = "exit" /\ exitCode' = 1
    /\ UNCHANGED <<target, dirCreated, modePrompted, picksPrompted, mode, picks,
                   scans_to_run, warned, i, invocations, clock>>

\* main(), lines 103-105: outdir.mkdir(parents=True, exist_ok=True)
MakeDir ==
    /\ pc = "mkdir"
    /\ dirCreated' = TRUE
    /\ pc' = "choose_mode"
    /\ UNCHANGED <<target, nmap, modePrompted, picksPrompted, mode, picks,
                   scans_to_run, warned, i, invocations, clock, exitCode>>

\* choose_mode(): input(...).strip() or "1"
choose_mode(line) == IF Strip(line) = <<>> THEN <<"1">> ELSE Strip(line)

\* main(), lines 107-111
ChooseMode ==
    /\ pc = "choose_mode"
    /\ modePrompted' = TRUE
    /\ \E line \in ModeInputs :
         /\ mode' = choose_mode(line)
         /\ IF choose_mode(line) = <<"2">>
            THEN /\ pc' = "choose_scans"
                 /\ scans_to_run' = scans_to_run
            ELSE /\ pc' = "selected"
                 /\ scans_to_run' = SCANS
    /\ UNCHANGED <<target, nmap, dirCreated, picksPrompted, picks, warned, i,
                   invocations, clock, exitCode>>

\* main(), line 109: scans_to_run = interactive_choose_scans()
ChooseScans ==
    /\ pc = "choose_scans"
    /\ picksPrompted' = TRUE
    /\ \E line \in PicksInputs :
         /\ picks' = line
         /\ scans_to_run' = interactive_choose_scans(line).scans
         /\ warned' = interactive_choose_scans(line).warned
    /\ pc' = "selected"
    /\ UNCHANGED <<target, nmap, dirCreated, modePrompted, mode, i,
                   invocations, clock, exitCode>>

\* main(), line 113: the selection function has returned, its local picks
\* is gone; main announces the batch
StartScans ==
    /\ pc = "selected"
    /\ picks' = NoLine
    /\ pc' = "loop"
    /\ UNCHANGED <<target, nmap, dirCreated, modePrompted, picksPrompted, mode,
                   scans_to_run, warned, i, invocations, clock, exitCode>>

\* variant: CalledProcessError is not caught and ends the process
RunScanUncaught ==
    /\ pc = "loop"
    /\ i < Len(scans_to_run)
    /\ \E now \in clock..MaxClock, rc \in {0, 1} :
         /\ clock' = now
         /\ invocations' = Append(invocations,
                [label |-> scans_to_run[i + 1].label,
                 args |-> scans_to_run[i + 1].args,
                 target |-> target,
                 outbase |-> <<target, scans_to_run[i + 1].label, now>>,
                 returncode |-> rc])
         /\ IF rc = 0
            THEN pc' = pc /\ exitCode' = exitCode
            ELSE pc' = "exit" /\ exitCode' = 1
    /\ i' = i + 1
    /\ UNCHANGED <<target, nmap, dirCreated, modePrompted, picksPrompted,
                   mode, picks, scans_to_run, warned>>

\* variant: the loop walks scans_to_run from its last element
RunScanReversed ==
    /\ pc = "loop"
    /\ i < Len(scans_to_run)
    /\ \E now \in clock..MaxClock, rc \in {0, 1} :
         /\ clock' = now
         /\ invocations' = Append(invocations,
                [label |-> scans_to_run[Len(scans_to_run) - i].label,
                 args |-> scans_to_run[Len(scans_to_run) - i].args,
                 target |-> target,
                 outbase |-> <<target, scans_to_run[Len(scans_to_run) - i].label, now>>,
                 returncode |-> rc])
    /\ i' = i + 1
    /\ UNCHANGED <<pc, target, nmap, dirCreated, modePrompted, picksPrompted,
                   mode, picks, scans_to_run, warned, exitCode>>

\* run_scan(), lines 52-62, for the next element of scans_to_run; the
\* clock is read at second resolution and the exit status is nmap's
RunScan ==
    /\ pc = "loop"
    /\ i < Len(scans_to_run)
    /\ \E now \in clock..MaxClock, rc \in {0, 1} :
         /\ clock' = now
         /\ invocations' = Append(invocations,
                [label |-> scans_to_run[i + 1].label,
                 args |-> scans_to_run[i + 1].args,
                 target |-> target,
                 outbase |-> <<target, scans_to_run[i + 1].label, now>>,
                 returncode |-> rc])
    /\ i' = i + 1
    /\ UNCHANGED <<pc, target, nmap, dirCreated, modePrompted, picksPrompted,
                   mode, picks, scans_to_run, warned, exitCode>>

\* variant: the exit status reflects failed scans
FinishStatusFromScans ==
    /\ pc = "loop"
    /\ i >= Len(scans_to_run)
    /\ IF \E k \in 1..Len(invocations) : invocations[k].returncode # 0
       THEN pc' = "exit" /\ exitCode' = 1
       ELSE pc' = "done" /\ exitCode' = 0
    /\ UNCHANGED <<target, nmap, dirCreated, modePrompted, picksPrompted, mode,
                   picks, scans_to_run, warned, i, invocations, clock>>

\* main(), lines 117-119: summary, then normal return
Finish ==
    /\ pc = "loop"
    /\ i >= Len(scans_to_run)
    /\ pc' = "done"
    /\ exitCode' = 0
    /\ UNCHANGED <<target, nmap, dirCreated, modePrompted, picksPrompted, mode,
                   picks, scans_to_run, warned, i, invocations, clock>>

Next ==
    \/ GetTarget
    \/ CheckNmap
    \/ MakeDir
    \/ ChooseMode
    \/ ChooseScans
    \/ StartScans
    \/ RunScan
    \/ Finish

Spec == Init /\ [][Next]_vars

\* every step of main() is taken once it is reached: the program is
\* sequential and every external invocation is assumed to return
FairSpec == Spec /\ WF_vars(Next)

\* ------------------------------------------------------ claim vocabulary
\* 1-based registry position of a label
Pos(label) == CHOOSE p \in 1..Len(SCANS) : SCANS[p].label = label

Failed(k) == invocations[k].returncode # 0

\* the selection function has just returned to main
JustSelected == pc = "selected" /\ picksPrompted

\* the typed line as the function sees it, and its pieces
Typed == Lower(Strip(picks))

TypedPieces == SelectSeq(Split(Typed), LAMBDA t : Strip(t) # <<>>)

ValidPiece(t) == IsInt(t) /\ IntOf(t) >= 1 /\ IntOf(t) <= Len(SCANS)

ValidPieces == SelectSeq(TypedPieces, ValidPiece)

ProfilesOf(pieces) == [k \in 1..Len(pieces) |-> SCANS[IntOf(pieces[k])]]

\* a selection line proper: neither empty nor the word all
ProperLine == Typed # <<>> /\ Typed # <<"a", "l", "l">>

\* C1: a failed scan never aborts the batch: after any non-zero exit status
\* the run still invokes every selected profile and reaches the summary
C1_FailureNeverAborts ==
    (\E k \in 1..Len(invocations) : Failed(k))
        ~> (/\ pc = "done"
            /\ Len(invocations) = Len(scans_to_run)
            /\ \A k \in 1..Len(scans_to_run) :
                   invocations[k].label = scans_to_run[k].label)

C1_Witness ==
    /\ pc = "done"
    /\ Len(invocations) = Len(SCANS)
    /\ Failed(2)
    /\ invocations[Len(SCANS)].label = SCANS[Len(SCANS)].label

\* C2: when the preflight check fails the process has exited with a
\* non-zero status, no scan was invoked, results/<target> was not created
\* and neither the mode prompt nor the selection prompt was issued
C2_PreflightFailureStopsAll ==
    nmap \in {"missing", "nonzero"} =>
        /\ pc = "exit"
        /\ exitCode = 1
        /\ invocations = <<>>
        /\ ~dirCreated
        /\ ~modePrompted
        /\ ~picksPrompted

C2_Witness == nmap = "missing" /\ pc = "exit" /\ target = <<"h">>

\* C3: no external scan invocation ever happens with an empty target
C3_NoScanWithEmptyTarget ==
    \A k \in 1..Len(invocations) : invocations[k].target # <<>>

C5_ValidIndicesInTypedOrder ==
    (/\ JustSelected
     /\ \A k \in 1..Len(Split(Typed)) : ValidPiece(Split(Typed)[k]))
        => /\ scans_to_run = ProfilesOf(Split(Typed))
           /\ ~warned

C5_Witness ==
    /\ JustSelected
    /\ picks = <<"1", ",", "3">>
    /\ scans_to_run = <<SCANS[1], SCANS[3]>>

\* C6 as stated: a proper line whose pieces are all invalid yields the
\* full registry and the warning
C6_Original ==
    (/\ JustSelected
     /\ ProperLine
     /\ TypedPieces # <<>>
     /\ ValidPieces = <<>>)
        => (scans_to_run = SCANS /\ warned)

\* C6 amended: a proper line whose pieces are all invalid yields the full
\* registry; the warning is printed exactly when some piece is not a number
C6_FallbackWarnsOnlyOnNonNumeric ==
    (/\ JustSelected
     /\ ProperLine
     /\ ValidPieces = <<>>)
        => /\ scans_to_run = SCANS
           /\ warned <=> (\E k \in 1..Len(TypedPieces) : ~IsInt(TypedPieces[k]))

C6_Witness ==
    /\ JustSelected
    /\ picks = <<"9", "9", ",", "a">>
    /\ scans_to_run = SCANS
    /\ warned

\* C7 as stated: a profile invoked before another one has the lower
\* registry position
C7_Original ==
    \A a, b \in 1..Len(invocations) :
        (a < b /\ invocations[a].label # invocations[b].label)
            => Pos(invocations[a].label) < Pos(invocations[b].label)

\* C7 amended: the k-th invocation is the k-th element of the selected
\* list; that is registry order whenever the mode is not interactive
C7_InvokedInListOrder ==
    pc \in {"loop", "done"} =>
        /\ Len(invocations) = i
        /\ \A k \in 1..Len(invocations) :
               /\ invocations[k].label = scans_to_run[k].label
               /\ invocations[k].args = scans_to_run[k].args
        /\ mode # <<"2">> =>
               \A k \in 1..Len(invocations) : Pos(invocations[k].label) = k

C7_Witness ==
    /\ pc = "done"
    /\ mode = <<"2">>
    /\ Len(invocations) = 2
    /\ invocations[1].label = SCANS[3].label
    /\ invocations[2].label = SCANS[1].label

\* C8: no label is invoked more than once in a run
C8_EachLabelAtMostOnce ==
    \A a, b \in 1..Len(invocations) :
        a # b => invocations[a].label # invocations[b].label

\* C9 as stated: a line with at least one valid index selects exactly the
\* profiles at the valid indices, whatever the other pieces are
C9_Original ==
    (/\ JustSelected
     /\ ProperLine
     /\ ValidPieces # <<>>)
        => scans_to_run = ProfilesOf(ValidPieces)

\* C9 amended: out-of-range numbers are skipped and the valid indices are
\* kept in typed order, but one piece that is not a number makes the whole
\* line fall back to the full registry with the warning
C9_SkipsOnlyOutOfRange ==
    (/\ JustSelected
     /\ ProperLine
     /\ ValidPieces # <<>>)
        => IF \E k \in 1..Len(TypedPieces) : ~IsInt(TypedPieces[k])
           THEN scans_to_run = SCANS /\ warned
           ELSE scans_to_run = ProfilesOf(ValidPieces) /\ ~warned

C9_Witness ==
    /\ JustSelected
    /\ picks = <<"1", ",", "9", "9">>
    /\ scans_to_run = <<SCANS[1]>>
    /\ ~warned

\* C10: the output base paths of one run are pairwise distinct
C10_OutbasesDistinct ==
    \A a, b \in 1..Len(invocations) :
        a # b => invocations[a].outbase # invocations[b].outbase

TypeOK ==
    /\ pc \in {"get_target", "check_nmap", "mkdir", "choose_mode",
               "choose_scans", "selected", "loop", "done", "exit"}
    /\ i \in 0..Len(scans_to_run)
    /\ clock \in 0..MaxClock
    /\ exitCode \in {-1, 0, 1}
====
